---- MODULE Spec2Model ----
(***************************************************************************)
(* FGSM evaluation notebook (src/caad/fgsm_caad-Copy1.ipynb).              *)
(*                                                                         *)
(* Tensors are sequences of pixels.  Real numbers are fixed point: a pixel *)
(* or an epsilon v stands for v / Scale, so the data range [0,1] is        *)
(* 0..Scale and the epsilon list [0, .05, ..., .3] is 0..6.  Arithmetic is *)
(* exact (no floating-point rounding, no NaN).                             *)
(*                                                                         *)
(* Two specifications:                                                     *)
(*   SpecAttack  the pure function fgsm_attack applied to bounded inputs   *)
(*   Spec        the run-attack loop calling test() for every epsilon      *)
(***************************************************************************)
EXTENDS Integers, Sequences, FiniteSets

(* ------------------------------ bounds -------------------------------- *)

\* pixels per image (the notebook's images are 1x80x80)
ImgLen == 2

\* largest test set (the notebook's has 982 samples)
NumSamples == 6

\* largest test set whose samples show different images
MixedSamples == 2

\* torch.rand is modelled as alpha = a / AlphaDen for a in 0..AlphaDen-1
AlphaDen == 2
\* largest test set of the runs checked for termination
FairSamples == 3

\* pixel values tried by SpecAttack: below, inside and above the data range
PixelVals == {-4, 0, 3, 10, 17, 20, 24}

\* gradient values tried by SpecAttack
GradVals == {-2, 0, 1, 3}

\* epsilons tried by SpecAttack, all in [0,1]
EpsVals == {0, 1, 6, 10, 20}

(* ------------------------- program constants -------------------------- *)

\* fixed-point denominator: the epsilons are multiples of .05 = 1/20
Scale == 20

\* epsilons = [0, .05, .1, .15, .2, .25, .3]
epsilons == <<0, 1, 2, 3, 4, 5, 6>>

\* channels of the decision head, nn.Conv2d(32, 1, 5, 1, 0)
OutChannels == 1

\* lambda_gp = 10
lambda_gp == 10

\* the cap of len(adv_examples) < 5
MaxExamples == 5

(* ------------------------------ helpers ------------------------------- *)

RECURSIVE SumSeq(_)
SumSeq(s) == IF s = <<>> THEN 0 ELSE Head(s) + SumSeq(Tail(s))

Abs(x) == IF x < 0 THEN -x ELSE x

Min(a, b) == IF a <= b THEN a ELSE b

\* an absent tensor, an absent scalar
NoTensor == <<>>
NoValue == -1

(* --------------------------- fgsm_attack ------------------------------ *)

\* mutant: the raw gradient is used, .sign() forgotten
sign_identity(x) == x

\* Tensor.sign(), one element
sign(x) == IF x > 0 THEN 1 ELSE IF x < 0 THEN -1 ELSE 0

\* mutant: only the lower bound is enforced
clamp_lower_only(x, lo, hi) == IF x < lo THEN lo ELSE x

\* mutant: out-of-range values wrap around instead of saturating
clamp_wrap(x, lo, hi) == lo + ((x - lo) % (hi - lo + 1))

\* torch.clamp, one element
clamp(x, lo, hi) == IF x < lo THEN lo ELSE IF x > hi THEN hi ELSE x

\* mutant: epsilon forgotten, the step is sign(data_grad) itself
fgsm_attack_noeps(image, epsilon, data_grad) ==
    [i \in DOMAIN image |-> clamp(image[i] + Scale * sign(data_grad[i]), 0, Scale)]

\* perturbed_image = clamp(image + epsilon * data_grad.sign(), 0, 1)
fgsm_attack(image, epsilon, data_grad) ==
    [i \in DOMAIN image |->
        clamp(image[i] + epsilon * sign(data_grad[i]), 0, Scale)]

(* ----------------------------- the model ------------------------------ *)

\* Discriminator_nodropout.forward: a tensor of OutChannels scores.  The
\* convolution stack is abstracted to one linear map per channel; what the
\* notebook's code depends on is the shape (1, OutChannels, 1, 1).
Forward(w, x) ==
    [c \in 1..OutChannels |-> SumSeq([i \in DOMAIN x |-> w[i] * x[i]])]

\* torch.autograd.grad(output, data)[0] for the map above
InputGrad(w, x) == [i \in DOMAIN x |-> w[i]]

\* a variant reading the single decision value as a thresholded score
Pred_threshold(out) == IF out[1] > 0 THEN 1 ELSE 0

\* output.max(1, keepdim=True)[1].item(): 0-based index of the first maximum
\* along dimension 1
Pred(out) ==
    (CHOOSE c \in DOMAIN out :
        /\ \A d \in DOMAIN out : out[d] <= out[c]
        /\ \A d \in DOMAIN out : (d < c) => (out[d] < out[c])) - 1

\* interpolated = alpha * images + (1 - alpha) * gen_images with
\* alpha = a / AlphaDen, kept times AlphaDen
Interpolated(images, gen_images, a) ==
    [i \in DOMAIN images |-> a * images[i] + (AlphaDen - a) * gen_images[i]]

\* gradient_penalty(D, images, gen_images) with alpha = a / AlphaDen.
\* interpolated is kept times AlphaDen; the result is the squared 2-norm n2 of
\* the input gradient at the interpolated point, gp being (sqrt(n2) - 1)^2.
gradient_penalty(w, images, gen_images, a) ==
    LET interpolated == Interpolated(images, gen_images, a)
        gradients == InputGrad(w, interpolated)
    IN  SumSeq([i \in DOMAIN gradients |-> gradients[i] * gradients[i]])

\* data.grad after loss.backward(), times ImgLen: the loss reaches data through
\* -mean(data) and through mean(perturbed_data), whose clamp passes the
\* gradient only where the unclipped value lies in [0,1].
LossInputGrad(image, epsilon, g) ==
    [i \in DOMAIN image |->
        LET v == image[i] + epsilon * sign(g[i])
        IN  -1 + (IF 0 <= v /\ v <= Scale THEN 1 ELSE 0)]

\* the parameters' .grad after model.zero_grad() and loss.backward(): the
\* gradient of lambda_gp * gp, which for the map above is w times the scalar
\* 2 * lambda_gp * (1 - 1/sqrt(n2)); kept without the factor (1 - 1/sqrt(n2))
ParamGrad(w) == [i \in DOMAIN w |-> 2 * lambda_gp * w[i]]

\* mutant: off-by-one cap
HasRoom_leq(adv) == Len(adv) <= MaxExamples

\* len(adv_examples) < 5
HasRoom(adv) == Len(adv) < MaxExamples

(* ------------------------------- state -------------------------------- *)

VARIABLES
    weights,            \* model parameters, loaded by load_state_dict
    test_data,          \* the samples behind test_loader: [image, label]
    pc,                 \* position in the notebook
    eps_idx,            \* position of the run-attack loop in epsilons
    accuracies, examples, entire_adv_mnist,     \* lists of the run-attack cell
    printed,            \* console lines: <<epsilon, correct, total, final_acc>>
    file,               \* nwe-mnist.pkl
    ret,                \* value returned by the last test() call
    epsilon,            \* test()'s parameter
    correct, adv_examples, new_dat, new_lab,    \* test()'s accumulators
    visited,            \* samples test_loader has yielded in this pass
    data, target, output, init_pred, final_pred,
    data_grad, perturbed_data,
    loss,               \* mean_diff (times ImgLen) + weight * gp (gp as n2)
    loss_grad,          \* data.grad: NoTensor until loss.backward()
    prev,               \* SpecAttack: the previous fgsm_attack application
    param_grad,         \* .grad of the model parameters: NoTensor until backward
    raised,             \* an exception has been raised and nothing catches it
    cnt, plot_i, plot_j,    \* counters of the example plot cell
    drawn               \* subplots drawn: [eps, cell, row, orig, adv]

loopVars == <<eps_idx, accuracies, examples, entire_adv_mnist, file>>
testVars == <<epsilon, correct, adv_examples, new_dat, new_lab, visited>>
sampleVars == <<data, target, output, init_pred, final_pred, data_grad,
                perturbed_data, loss, loss_grad>>
plotVars == <<cnt, plot_i, plot_j, drawn>>
vars == <<weights, test_data, pc, printed, ret, loopVars, testVars,
          sampleVars, prev, param_grad, raised, plotVars>>

NoLoss == [mean_diff |-> 0, weight |-> lambda_gp, gp |-> NoValue,
           gp_at |-> NoTensor]
NoAcc == [num |-> 0, den |-> 0]
NoRet == [final_acc |-> NoAcc, adv_examples |-> <<>>, newdat |-> <<>>]
NoFile == [written |-> FALSE, content |-> <<>>]
NoPrev == [epsilon |-> NoValue, perturbed |-> NoTensor]

\* mutant: the accuracy is taken over the attacked samples only
FinalAcc_attacked(c, n) == [num |-> c, den |-> Len(new_dat)]

\* final_acc = correct / float(len(test_loader)), as an exact fraction
FinalAcc(c, n) == [num |-> c, den |-> n]

(* ---------------------------- initial state --------------------------- *)

\* in-range images of the test samples
TestImages ==
    { [i \in 1..ImgLen |-> IF i = 1 THEN p[1] ELSE p[2]] :
        p \in {<<0, 18>>, <<10, 10>>} }

\* weight files that load_state_dict may load
LoadedWeights ==
    { [i \in 1..ImgLen |-> IF i = 1 THEN g ELSE -g] : g \in {-2, 0, 3} }

\* test_loader shuffles, so the stored order of the samples is immaterial and
\* they are listed label 0 first.
SamplesOf(n, n0, imgs) ==
    [i \in 1..n |-> [image |-> imgs[i], label |-> IF i <= n0 THEN 0 ELSE 1]]

\* test sets: up to NumSamples samples showing one image, and up to
\* MixedSamples samples showing any images
TestSets ==
    UNION ( { { SamplesOf(n, n0, [i \in 1..n |-> img]) :
                    n0 \in 0..n, img \in TestImages } : n \in 0..NumSamples }
            \cup
            { { SamplesOf(n, n0, imgs) :
                    n0 \in 0..n, imgs \in [1..n -> TestImages] } :
              n \in 0..MixedSamples } )

InitLocals ==
    /\ epsilon = NoValue
    /\ correct = 0
    /\ adv_examples = <<>>
    /\ new_dat = <<>>
    /\ new_lab = <<>>
    /\ visited = {}
    /\ target = NoValue
    /\ output = NoTensor
    /\ init_pred = NoValue
    /\ final_pred = NoValue
    /\ perturbed_data = NoTensor
    /\ loss = NoLoss
    /\ loss_grad = NoTensor
    /\ ret = NoRet
    /\ printed = <<>>
    /\ eps_idx = 1
    /\ accuracies = <<>>
    /\ entire_adv_mnist = <<>>
    /\ file = NoFile
    /\ prev = NoPrev
    /\ param_grad = NoTensor
    /\ raised = FALSE
    /\ cnt = 0
    /\ plot_i = 0
    /\ plot_j = 0
    /\ drawn = <<>>

\* the notebook after the cells that load the data and the model
Init ==
    /\ weights \in LoadedWeights
    /\ test_data \in TestSets
    /\ pc = "loop"
    /\ data = NoTensor
    /\ data_grad = NoTensor
    /\ examples = <<>>
    /\ InitLocals

(* ------------------------------- test() ------------------------------- *)

\* mutant: the accuracy counter is not reset by the call
CallTest_keepcorrect ==
    /\ pc = "loop"
    /\ eps_idx <= Len(epsilons)
    /\ epsilon' = epsilons[eps_idx]
    /\ adv_examples' = <<>>
    /\ new_dat' = <<>>
    /\ new_lab' = <<>>
    /\ visited' = {}
    /\ pc' = "fetch"
    /\ UNCHANGED <<plotVars, raised, param_grad, weights, test_data, printed, ret, loopVars, sampleVars,
                   prev, correct>>

\* for eps in epsilons: the call test(model, device, test_loader, eps) and the
\* initialisation of its accumulators
CallTest ==
    /\ pc = "loop"
    /\ eps_idx <= Len(epsilons)
    /\ epsilon' = epsilons[eps_idx]
    /\ correct' = 0
    /\ adv_examples' = <<>>
    /\ new_dat' = <<>>
    /\ new_lab' = <<>>
    /\ visited' = {}
    /\ pc' = "fetch"
    /\ UNCHANGED <<plotVars, raised, param_grad, weights, test_data, printed, ret, loopVars, sampleVars, prev>>

\* a variant comparing the prediction with the label of the sample before
NextSample_staletarget(i) ==
    /\ pc = "fetch"
    /\ i \in DOMAIN test_data \ visited
    /\ visited' = visited \cup {i}
    /\ data' = test_data[i].image
    /\ target' = test_data[i].label
    /\ output' = Forward(weights, data')
    /\ init_pred' = Pred(output')
    /\ loss_grad' = NoTensor
    /\ pc' = IF init_pred' # target THEN "fetch" ELSE "collect"
    /\ UNCHANGED <<plotVars, raised, param_grad, weights, test_data, printed, ret, loopVars, prev,
                   epsilon, correct, adv_examples, new_dat, new_lab,
                   final_pred, data_grad, perturbed_data, loss>>

\* a variant without the early continue: every sample is attacked
NextSample_noskip(i) ==
    /\ pc = "fetch"
    /\ i \in DOMAIN test_data \ visited
    /\ visited' = visited \cup {i}
    /\ data' = test_data[i].image
    /\ target' = test_data[i].label
    /\ output' = Forward(weights, data')
    /\ init_pred' = Pred(output')
    /\ loss_grad' = NoTensor
    /\ pc' = "collect"
    /\ UNCHANGED <<plotVars, raised, param_grad, weights, test_data, printed, ret, loopVars, prev,
                   epsilon, correct, adv_examples, new_dat, new_lab,
                   final_pred, data_grad, perturbed_data, loss>>

\* for data, target in test_loader: the shuffling loader yields a sample not
\* yet seen in this pass; forward pass, init_pred, and the early continue
NextSample(i) ==
    /\ pc = "fetch"
    /\ i \in DOMAIN test_data \ visited
    /\ visited' = visited \cup {i}
    /\ data' = test_data[i].image
    /\ target' = test_data[i].label
    /\ output' = Forward(weights, data')
    /\ init_pred' = Pred(output')
    /\ loss_grad' = NoTensor
    /\ pc' = IF init_pred' # target' THEN "fetch" ELSE "collect"
    /\ UNCHANGED <<plotVars, raised, param_grad, weights, test_data, printed, ret, loopVars, prev,
                   epsilon, correct, adv_examples, new_dat, new_lab,
                   final_pred, data_grad, perturbed_data, loss>>

\* data_grad = torch.autograd.grad(output, data)[0]
CollectGrad ==
    /\ pc = "collect"
    /\ data_grad' = InputGrad(weights, data)
    /\ pc' = "attack"
    /\ UNCHANGED <<plotVars, raised, param_grad, weights, test_data, printed, ret, loopVars, testVars, prev,
                   data, target, output, init_pred, final_pred,
                   perturbed_data, loss, loss_grad>>

\* perturbed_data = fgsm_attack(data, epsilon, data_grad)
Attack ==
    /\ pc = "attack"
    /\ perturbed_data' = fgsm_attack(data, epsilon, data_grad)
    /\ pc' = "penalty"
    /\ UNCHANGED <<plotVars, raised, param_grad, weights, test_data, printed, ret, loopVars, testVars, prev,
                   data, target, output, init_pred, final_pred,
                   data_grad, loss, loss_grad>>

\* gp = gradient_penalty(model, data, perturbed_data) with the drawn alpha;
\* loss = -(mean(data) - mean(perturbed_data)) + lambda_gp * gp, kept as its
\* terms and the point at which the penalty's gradient was taken
Penalty(a) ==
    /\ pc = "penalty"
    /\ loss' = [mean_diff |-> SumSeq(perturbed_data) - SumSeq(data),
                weight |-> lambda_gp,
                gp |-> gradient_penalty(weights, data, perturbed_data, a),
                gp_at |-> Interpolated(data, perturbed_data, a)]
    /\ pc' = "backward"
    /\ UNCHANGED <<plotVars, raised, param_grad, weights, test_data, printed, ret, loopVars, testVars, prev,
                   data, target, output, init_pred, final_pred,
                   data_grad, perturbed_data, loss_grad>>

\* mutant: an optimizer step follows the backward pass
Backward_step ==
    /\ pc = "backward"
    /\ loss_grad' = LossInputGrad(data, epsilon, data_grad)
    /\ param_grad' = ParamGrad(weights)
    /\ weights' = [i \in DOMAIN weights |-> weights[i] - param_grad'[i]]
    /\ pc' = "reclassify"
    /\ UNCHANGED <<plotVars, raised, test_data, printed, ret, loopVars,
                   testVars, prev, data, target, output, init_pred,
                   final_pred, data_grad, perturbed_data, loss>>

\* model.zero_grad(); loss.backward(): gradients are accumulated, no
\* optimizer steps, the weights stay
Backward ==
    /\ pc = "backward"
    /\ loss_grad' = LossInputGrad(data, epsilon, data_grad)
    /\ param_grad' = ParamGrad(weights)
    /\ pc' = "reclassify"
    /\ UNCHANGED <<plotVars, raised, weights, test_data, printed, ret, loopVars, testVars, prev,
                   data, target, output, init_pred, final_pred,
                   data_grad, perturbed_data, loss>>

\* output = model(perturbed_data); new_dat.append, new_lab.append
Reclassify ==
    /\ pc = "reclassify"
    /\ output' = Forward(weights, perturbed_data)
    /\ new_dat' = Append(new_dat, perturbed_data)
    /\ new_lab' = Append(new_lab, target)
    /\ pc' = "tally"
    /\ UNCHANGED <<plotVars, raised, param_grad, weights, test_data, printed, ret, loopVars, prev,
                   epsilon, correct, adv_examples, visited,
                   data, target, init_pred, final_pred,
                   data_grad, perturbed_data, loss, loss_grad>>

\* mutant: the epsilon = 0 special case applies to every epsilon
Tally_anyeps ==
    /\ pc = "tally"
    /\ final_pred' = Pred(output)
    /\ correct' = IF final_pred' = target THEN correct + 1 ELSE correct
    /\ adv_examples' =
            IF HasRoom(adv_examples)
            THEN Append(adv_examples, <<init_pred, final_pred', perturbed_data>>)
            ELSE adv_examples
    /\ pc' = "fetch"
    /\ UNCHANGED <<plotVars, raised, param_grad, weights, test_data, printed, ret, loopVars, prev,
                   epsilon, new_dat, new_lab, visited,
                   data, target, output, init_pred,
                   data_grad, perturbed_data, loss, loss_grad>>

\* final_pred, the accuracy counter and the recorded examples
Tally ==
    /\ pc = "tally"
    /\ final_pred' = Pred(output)
    /\ IF final_pred' = target
         THEN /\ correct' = correct + 1
              /\ adv_examples' =
                    IF epsilon = 0 /\ HasRoom(adv_examples)
                    THEN Append(adv_examples,
                                <<init_pred, final_pred', perturbed_data>>)
                    ELSE adv_examples
         ELSE /\ correct' = correct
              /\ adv_examples' =
                    IF HasRoom(adv_examples)
                    THEN Append(adv_examples,
                                <<init_pred, final_pred', perturbed_data>>)
                    ELSE adv_examples
    /\ pc' = "fetch"
    /\ UNCHANGED <<plotVars, raised, param_grad, weights, test_data, printed, ret, loopVars, prev,
                   epsilon, new_dat, new_lab, visited,
                   data, target, output, init_pred,
                   data_grad, perturbed_data, loss, loss_grad>>

\* after the loop: newdat, final_acc, the printed line and the return; the
\* division raises ZeroDivisionError for an empty test_loader
\* a variant that leaves the for loop before the loader is exhausted
Return_early ==
    /\ pc = "fetch"
    /\ IF Len(test_data) = 0
         THEN /\ pc' = "aborted"
              /\ raised' = TRUE
              /\ UNCHANGED <<ret, printed>>
         ELSE /\ ret' = [final_acc |-> FinalAcc(correct, Len(test_data)),
                         adv_examples |-> adv_examples,
                         newdat |-> <<new_dat, new_lab>>]
              /\ printed' = Append(printed,
                                <<epsilon, correct, Len(test_data),
                                  FinalAcc(correct, Len(test_data))>>)
              /\ pc' = "returned"
              /\ UNCHANGED raised
    /\ UNCHANGED <<plotVars, param_grad, weights, test_data, loopVars, testVars, sampleVars, prev>>

Return ==
    /\ pc = "fetch"
    /\ visited = DOMAIN test_data
    /\ IF Len(test_data) = 0
         THEN /\ pc' = "aborted"
              /\ raised' = TRUE
              /\ UNCHANGED <<ret, printed>>
         ELSE /\ ret' = [final_acc |-> FinalAcc(correct, Len(test_data)),
                         adv_examples |-> adv_examples,
                         newdat |-> <<new_dat, new_lab>>]
              /\ printed' = Append(printed,
                                <<epsilon, correct, Len(test_data),
                                  FinalAcc(correct, Len(test_data))>>)
              /\ pc' = "returned"
              /\ UNCHANGED raised
    /\ UNCHANGED <<plotVars, param_grad, weights, test_data, loopVars, testVars, sampleVars, prev>>

(* ------------------------- the run-attack cell ------------------------ *)

\* mutant: the returned data set is kept for every epsilon
LoopBody_always ==
    /\ pc = "returned"
    /\ accuracies' = Append(accuracies, ret.final_acc)
    /\ examples' = Append(examples, ret.adv_examples)
    /\ entire_adv_mnist' = Append(entire_adv_mnist, ret.newdat)
    /\ eps_idx' = eps_idx + 1
    /\ pc' = "loop"
    /\ UNCHANGED <<plotVars, raised, param_grad, weights, test_data, printed,
                   ret, file, testVars, sampleVars, prev>>

\* acc, ex, mnist = test(...); the three appends of the loop body
LoopBody ==
    /\ pc = "returned"
    /\ accuracies' = Append(accuracies, ret.final_acc)
    /\ examples' = Append(examples, ret.adv_examples)
    /\ entire_adv_mnist' = IF epsilons[eps_idx] = 0
                           THEN Append(entire_adv_mnist, ret.newdat)
                           ELSE entire_adv_mnist
    /\ eps_idx' = eps_idx + 1
    /\ pc' = "loop"
    /\ UNCHANGED <<plotVars, raised, param_grad, weights, test_data, printed, ret, file, testVars,
                   sampleVars, prev>>

\* pickle.dump(entire_adv_mnist, fp) once the loop is over
Dump ==
    /\ pc = "loop"
    /\ eps_idx > Len(epsilons)
    /\ file' = [written |-> TRUE, content |-> entire_adv_mnist]
    /\ pc' = "done"
    /\ UNCHANGED <<plotVars, raised, param_grad, weights, test_data, printed, ret, testVars, sampleVars,
                   prev, eps_idx, accuracies, examples, entire_adv_mnist>>

\* the reload cell: entire_adv_mnist = pickle.load(f); its length is printed
Reload ==
    /\ pc = "done"
    /\ file.written
    /\ entire_adv_mnist' = file.content
    /\ printed' = Append(printed, <<Len(file.content)>>)
    /\ pc' = "reloaded"
    /\ UNCHANGED <<plotVars, raised, param_grad, weights, test_data, ret,
                   testVars, sampleVars, prev, eps_idx, accuracies, examples,
                   file>>

\* a variant that swallows the error and goes on with the next sample
Raise_swallow ==
    /\ pc \in {"fetch", "collect", "attack", "penalty", "backward",
               "reclassify", "tally"}
    /\ pc = "fetch" => visited # DOMAIN test_data
    /\ raised' = TRUE
    /\ pc' = "fetch"
    /\ UNCHANGED <<plotVars, param_grad, weights, test_data, printed, ret,
                   loopVars, testVars, sampleVars, prev>>

\* a tensor operation of the loop body raises (the forward pass of the next
\* sample, autograd.grad, fgsm_attack, gradient_penalty, backward, the second
\* forward pass, the conversions of the tally).  Neither test() nor the
\* run-attack loop has a try statement: the exception ends the cell.
Raise ==
    /\ pc \in {"fetch", "collect", "attack", "penalty", "backward",
               "reclassify", "tally"}
    /\ pc = "fetch" => visited # DOMAIN test_data
    /\ raised' = TRUE
    /\ pc' = "aborted"
    /\ UNCHANGED <<plotVars, param_grad, weights, test_data, printed, ret,
                   loopVars, testVars, sampleVars, prev>>

(* ------------------------ the example plot cell ---------------------- *)

\* plt.subplot(nrows, ncols, index) numbers the cells row by row from 1: the
\* row of cell index
SubplotRow(ncols, index) == ((index - 1) \div ncols) + 1

\* cnt = 0; plt.figure(...) and the heads of the two for loops
PlotStart ==
    /\ pc = "reloaded"
    /\ cnt' = 0
    /\ plot_i' = 1
    /\ plot_j' = 1
    /\ drawn' = <<>>
    /\ pc' = "plot"
    /\ UNCHANGED <<raised, param_grad, weights, test_data, printed, ret,
                   loopVars, testVars, sampleVars, prev>>

\* one pass of the inner loop: cnt += 1, the subplot of a grid of
\* len(epsilons) rows and len(examples[0]) columns, title and image.
\* plt.subplot raises ValueError for a grid without columns and for an index
\* beyond the grid.
DrawExample ==
    /\ pc = "plot"
    /\ plot_i <= Len(epsilons)
    /\ plot_j <= Len(examples[plot_i])
    /\ cnt' = cnt + 1
    /\ LET nrows == Len(epsilons)
           ncols == Len(examples[1])
       IN  IF ncols = 0 \/ cnt' > nrows * ncols
           THEN /\ raised' = TRUE
                /\ pc' = "aborted"
                /\ UNCHANGED <<drawn, plot_j>>
           ELSE /\ drawn' = Append(drawn,
                                   [eps |-> plot_i,
                                    cell |-> cnt',
                                    row |-> SubplotRow(ncols, cnt'),
                                    orig |-> examples[plot_i][plot_j][1],
                                    adv |-> examples[plot_i][plot_j][2]])
                /\ plot_j' = plot_j + 1
                /\ UNCHANGED <<raised, pc>>
    /\ UNCHANGED <<plot_i, param_grad, weights, test_data, printed, ret,
                   loopVars, testVars, sampleVars, prev>>

\* the inner loop is exhausted: next i
NextRow ==
    /\ pc = "plot"
    /\ plot_i <= Len(epsilons)
    /\ plot_j > Len(examples[plot_i])
    /\ plot_i' = plot_i + 1
    /\ plot_j' = 1
    /\ UNCHANGED <<cnt, drawn, pc, raised, param_grad, weights, test_data,
                   printed, ret, loopVars, testVars, sampleVars, prev>>

\* plt.tight_layout(); plt.show()
Show ==
    /\ pc = "plot"
    /\ plot_i > Len(epsilons)
    /\ pc' = "shown"
    /\ UNCHANGED <<plotVars, raised, param_grad, weights, test_data,
                   printed, ret, loopVars, testVars, sampleVars, prev>>

Next ==
    \/ CallTest
    \/ \E i \in 1..NumSamples : NextSample(i)
    \/ CollectGrad
    \/ Attack
    \/ \E a \in 0..(AlphaDen - 1) : Penalty(a)
    \/ Backward
    \/ Reclassify
    \/ Tally
    \/ Return
    \/ LoopBody
    \/ Raise
    \/ Dump
    \/ Reload
    \/ PlotStart
    \/ DrawExample
    \/ NextRow
    \/ Show

Spec == Init /\ [][Next]_vars

(* --------------------- fgsm_attack on bounded inputs ------------------- *)

InitAttack ==
    /\ weights = [i \in 1..ImgLen |-> 0]
    /\ test_data = <<>>
    /\ pc = "fgsm_attack"
    /\ data \in [1..ImgLen -> PixelVals]
    /\ data_grad \in [1..ImgLen -> GradVals]
    /\ examples = <<>>
    /\ InitLocals

\* one application of fgsm_attack; epsilons are tried in ascending order and
\* the previous application is kept for comparison
ApplyAttack(e) ==
    /\ pc = "fgsm_attack"
    /\ e >= epsilon
    /\ prev' = [epsilon |-> epsilon, perturbed |-> perturbed_data]
    /\ epsilon' = e
    /\ perturbed_data' = fgsm_attack(data, e, data_grad)
    /\ UNCHANGED <<plotVars, raised, param_grad, weights, test_data, pc, printed, ret, loopVars,
                   correct, adv_examples, new_dat, new_lab, visited,
                   data, target, output, init_pred, final_pred, data_grad,
                   loss, loss_grad>>

NextAttack == \E e \in EpsVals : ApplyAttack(e)

SpecAttack == InitAttack /\ [][NextAttack]_vars

(* ===================== properties of fgsm_attack ====================== *)

InRange(img) == \A i \in DOMAIN img : 0 <= img[i] /\ img[i] <= Scale

\* fgsm_attack has been applied to data, epsilon and data_grad
Applied == pc = "fgsm_attack" /\ epsilon # NoValue

\* change of pixel i made by the last, and by the previous, application
Step(i) == Abs(perturbed_data[i] - data[i])
PrevStep(i) == Abs(prev.perturbed[i] - data[i])

\* C1: for every epsilon in [0,1], every image (also one with values outside
\* [0,1]) and every gradient, every element of the image returned by
\* fgsm_attack lies in [0,1].
C1_OutputInRange == Applied => InRange(perturbed_data)

\* an image with a value above 1 and a value below 0 has been attacked
C1_Witness ==
    /\ Applied
    /\ epsilon > 0
    /\ \E i \in DOMAIN data : data[i] > Scale
    /\ \E i \in DOMAIN data : data[i] < 0

\* C2: for epsilon = 0 and an image with values in [0,1], fgsm_attack returns
\* the image unchanged, whatever the signs of the gradient.
C2_ZeroEpsilonIdentity ==
    (Applied /\ epsilon = 0 /\ InRange(data)) => perturbed_data = data

\* epsilon = 0 applied to an in-range image under a gradient of both signs
C2_Witness ==
    /\ Applied
    /\ epsilon = 0
    /\ InRange(data)
    /\ \E i \in DOMAIN data_grad : data_grad[i] > 0
    /\ \E i \in DOMAIN data_grad : data_grad[i] < 0

\* C3 as stated: every element of the returned image differs from the input
\* element by exactly epsilon.
C3_ExactStep == Applied => \A i \in DOMAIN data : Step(i) = epsilon

\* C3 amended: for an image with values in [0,1] every element moves by at
\* most epsilon; an element moves by exactly epsilon where its gradient is
\* not zero and the stepped value is still inside [0,1].
C3_BoundedStep ==
    Applied =>
        \A i \in DOMAIN data :
            /\ InRange(data) => Step(i) <= epsilon
            /\ (data_grad[i] > 0 /\ 0 <= data[i] + epsilon
                    /\ data[i] + epsilon <= Scale) =>
                        perturbed_data[i] = data[i] + epsilon
            /\ (data_grad[i] < 0 /\ 0 <= data[i] - epsilon
                    /\ data[i] - epsilon <= Scale) =>
                        perturbed_data[i] = data[i] - epsilon

\* an in-range image with one element clipped short of epsilon and one
\* element moved by the whole epsilon
C3_Witness ==
    /\ Applied
    /\ epsilon > 0
    /\ InRange(data)
    /\ \E i \in DOMAIN data : data_grad[i] # 0 /\ Step(i) < epsilon
    /\ \E i \in DOMAIN data : Step(i) = epsilon

\* C4: for a fixed in-range image and gradient and e1 <= e2, no element moves
\* less under e2 than under e1, clipping included.
C4_MonotoneStep ==
    (Applied /\ prev.epsilon # NoValue /\ prev.epsilon <= epsilon
        /\ InRange(data)) =>
            \A i \in DOMAIN data : PrevStep(i) <= Step(i)

\* two applications with e1 < e2 where the second is clipped
C4_Witness ==
    /\ Applied
    /\ prev.epsilon # NoValue
    /\ prev.epsilon < epsilon
    /\ InRange(data)
    /\ \E i \in DOMAIN data :
            data_grad[i] # 0 /\ 0 < PrevStep(i) /\ Step(i) < epsilon

\* the run on the test sets of at most FairSamples samples
InitFair ==
    /\ Init
    /\ Len(test_data) <= FairSamples

\* the cells run sequentially on one thread: a step that can be taken is taken
SpecFair == InitFair /\ [][Next]_vars /\ WF_vars(Next)

(* ------------------ the plot cell on bounded example lists ------------ *)

\* numbers of examples an epsilon may have recorded
PlotCounts == {0, 2, MaxExamples}

\* k records (original label, adversarial label, image)
ExamplesOf(k) ==
    [j \in 1..k |-> <<0, 1, CHOOSE img \in TestImages : TRUE>>]

InitPlot ==
    /\ weights = [i \in 1..ImgLen |-> 0]
    /\ test_data = <<>>
    /\ pc = "reloaded"
    /\ data = NoTensor
    /\ data_grad = NoTensor
    /\ examples \in [1..Len(epsilons) -> {ExamplesOf(k) : k \in PlotCounts}]
    /\ InitLocals

NextPlot ==
    \/ PlotStart
    \/ DrawExample
    \/ NextRow
    \/ Show

SpecPlot == InitPlot /\ [][NextPlot]_vars

(* ========================= properties of test() ====================== *)

\* fractions compared exactly
AccEq(a, b) == a.den # 0 /\ b.den # 0 /\ a.num * b.den = b.num * a.den
AccLeq(a, b) == a.den # 0 /\ b.den # 0 /\ a.num * b.den <= b.num * a.den

\* prediction of the model on the clean image of sample i, and on its image
\* perturbed with the current epsilon
CleanPred(i) == Pred(Forward(weights, test_data[i].image))
AttackedPred(i) ==
    Pred(Forward(weights,
                 fgsm_attack(test_data[i].image, epsilon,
                             InputGrad(weights, test_data[i].image))))

\* samples the clean model classifies as their label
CleanCorrect == {i \in DOMAIN test_data : CleanPred(i) = test_data[i].label}

\* samples whose perturbed image is classified as their label
StillCorrect == {i \in CleanCorrect : AttackedPred(i) = test_data[i].label}

\* positions at which the current sample has been perturbed
AfterAttack == {"penalty", "backward", "reclassify", "tally"}

\* C5: the data_grad passed to fgsm_attack is the gradient of the loss (mean
\* difference of clean and perturbed image plus gradient penalty), computed
\* before fgsm_attack is applied.
C5_LossGradientDrivesAttack ==
    (pc \in AfterAttack) => (loss_grad # NoTensor /\ data_grad = loss_grad)

\* C6: the accuracy test() reports for epsilon = 0 is the clean accuracy:
\* (samples whose unperturbed prediction equals their label) / (all samples).
C6_ZeroEpsilonCleanAccuracy ==
    /\ (pc = "returned" /\ epsilon = 0) =>
            AccEq(ret.final_acc,
                  [num |-> Cardinality(CleanCorrect), den |-> Len(test_data)])
    /\ (Len(accuracies) >= 1) =>
            AccEq(accuracies[1],
                  [num |-> Cardinality(CleanCorrect), den |-> Len(test_data)])

\* test() returned for epsilon = 0 on a test set the clean model classifies
\* partly right and partly wrong
C6_Witness ==
    /\ pc = "returned"
    /\ epsilon = 0
    /\ CleanCorrect # {}
    /\ CleanCorrect # DOMAIN test_data

\* C7: the reported accuracy is non-increasing along the epsilon list.
C7_AccuracyNonIncreasing ==
    \A i, j \in DOMAIN accuracies :
        (i < j) => AccLeq(accuracies[j], accuracies[i])

\* every epsilon, .25 and .3 included, has reported a non-zero accuracy
C7_Witness ==
    /\ Len(accuracies) = Len(epsilons)
    /\ accuracies[1].num > 0
    /\ accuracies[1].num < Len(test_data)

\* C8: the accuracy returned is correct / (size of the test set), skipped
\* samples counted in the denominator, correct counting the samples whose
\* perturbed image is classified as their label.
C8_AccuracyOverWholeSet ==
    (pc = "returned") =>
        /\ ret.final_acc.den = Len(test_data)
        /\ ret.final_acc.num = Cardinality(StillCorrect)
        /\ ret.final_acc.num = correct

\* test() returned after skipping a sample and attacking another
C8_Witness ==
    /\ pc = "returned"
    /\ epsilon > 0
    /\ StillCorrect # {}
    /\ CleanCorrect # DOMAIN test_data

\* C9: the recorded examples never exceed 5, in test() and in what it
\* returns; once 5 are held, the samples that follow add none.
C9_AtMostFiveExamples ==
    /\ [](/\ Len(adv_examples) <= MaxExamples
          /\ Len(ret.adv_examples) <= MaxExamples
          /\ \A k \in DOMAIN examples : Len(examples[k]) <= MaxExamples)
    /\ [][(Len(adv_examples) = MaxExamples /\ pc # "loop")
            => adv_examples' = adv_examples]_vars

\* a sixth recordable sample has been tallied with 5 examples held
C9_Witness ==
    /\ pc = "fetch"
    /\ epsilon = 0
    /\ Len(adv_examples) = MaxExamples
    /\ correct > MaxExamples

\* attacked samples whose tally is done
Tallied == IF pc = "tally" THEN Len(new_dat) - 1 ELSE Len(new_dat)

\* C10 as stated: every retained record is a successful case, its
\* post-perturbation label differing from its original label.
C10_RecordsAreSuccessful ==
    \A k \in DOMAIN adv_examples : adv_examples[k][2] # adv_examples[k][1]

\* C10 amended: for epsilon > 0 the records are the first (up to 5) attacked
\* samples, in iteration order, whose post-perturbation label differs from
\* the original one; for epsilon = 0 they are the first (up to 5) attacked
\* samples in iteration order whose perturbed image is still classified as
\* their label, both labels of the record being equal.
C10_RecordsByEpsilon ==
    (pc \in {"fetch", "collect", "attack", "returned"} \cup AfterAttack) =>
        /\ \A k \in DOMAIN adv_examples :
                (adv_examples[k][2] = adv_examples[k][1]) <=> (epsilon = 0)
        /\ (epsilon = 0) =>
                /\ Len(adv_examples) = Min(MaxExamples, correct)
                /\ \A k \in DOMAIN adv_examples :
                        adv_examples[k] = <<new_lab[k], new_lab[k], new_dat[k]>>
        /\ (epsilon # 0) =>
                Len(adv_examples) = Min(MaxExamples, Tallied - correct)

\* epsilon = 0 has recorded two samples showing different images
C10_Witness ==
    /\ pc = "fetch"
    /\ epsilon = 0
    /\ Len(adv_examples) >= 2
    /\ adv_examples[1][3] # adv_examples[2][3]
    /\ adv_examples[1][1] = adv_examples[1][2]

(* ==================== properties of the run-attack cell ============== *)

C12_OneEntryPerEpsilon ==
    (pc = "reloaded") => Len(entire_adv_mnist) = Len(epsilons)

\* C13: no step of the evaluation (forward pass, input gradient, gradient
\* penalty, zero_grad, loss.backward) changes a weight of the model; the
\* backward pass writes the parameters' .grad only.
C13_WeightsNeverUpdated == [][weights' = weights]_vars

\* the loop is over and backward passes have left gradients on non-zero
\* parameters
C13_Witness ==
    /\ pc = "done"
    /\ param_grad # NoTensor
    /\ \E i \in DOMAIN param_grad : param_grad[i] # 0

C15_ErrorAborts ==
    /\ [](raised => (pc = "aborted" /\ ~file.written))
    /\ [][~raised]_vars
    /\ [][(file'.written /\ ~file.written) =>
             (Len(accuracies) = Len(epsilons) /\ eps_idx > Len(epsilons))]_vars

\* an error in the middle of the test set at a later epsilon
C15_Witness ==
    /\ raised
    /\ pc = "aborted"
    /\ eps_idx >= 2
    /\ visited # {}
    /\ visited # DOMAIN test_data
    /\ ~file.written

\* C16: unless an exception is raised the evaluation loop terminates; it
\* prints one result line per epsilon in the order of the epsilon list, each
\* line only after every sample of the test set was visited, each sample once
\* per epsilon; accuracies and examples end with one entry per epsilon in
\* the same order.
C16_LoopTerminates ==
    /\ <>(raised \/ pc = "done")
    /\ [](pc = "done" =>
            /\ Len(printed) = Len(epsilons)
            /\ Len(accuracies) = Len(epsilons)
            /\ Len(examples) = Len(epsilons)
            /\ \A k \in DOMAIN epsilons :
                  /\ printed[k][1] = epsilons[k]
                  /\ printed[k][4] = accuracies[k])
    /\ [][(pc = "fetch" /\ printed' # printed) =>
             /\ visited = DOMAIN test_data
             /\ Len(printed) = eps_idx - 1
             /\ printed'[eps_idx][1] = epsilons[eps_idx]]_vars
    /\ [][(visited' # visited) =>
             \/ (pc = "loop" /\ visited' = {})
             \/ \E i \in DOMAIN test_data \ visited :
                    visited' = visited \cup {i}]_vars
    /\ [][(accuracies' # accuracies) =>
             /\ Len(accuracies) = eps_idx - 1
             /\ Len(examples) = eps_idx - 1
             /\ accuracies' = Append(accuracies, ret.final_acc)
             /\ examples' = Append(examples, ret.adv_examples)]_vars

\* the loop ended on a test set of several samples
C16_Witness ==
    /\ pc = "done"
    /\ ~raised
    /\ Len(printed) = Len(epsilons)
    /\ Len(test_data) >= 2

\* positions inside test(), and those at which the sample being processed
\* has passed the check of its clean prediction but is not yet saved
InTest ==
    {"fetch", "collect", "attack", "penalty", "backward", "reclassify",
     "tally", "returned"}
NotYetSaved == {"collect", "attack", "penalty", "backward", "reclassify"}

\* C17 as stated: at every point of test(), len(new_dat) = len(new_lab) =
\* number of visited samples whose clean prediction equals their label, and
\* correct <= len(new_dat) <= number of visited samples.
C17_CountersAtEveryPoint ==
    (pc \in InTest) =>
        /\ Len(new_dat) = Len(new_lab)
        /\ Len(new_dat) = Cardinality(visited \cap CleanCorrect)
        /\ correct <= Len(new_dat)
        /\ Len(new_dat) <= Cardinality(visited)

\* C17 amended: a sample whose clean prediction differs from its label is
\* skipped, changing neither correct nor the saved images and labels nor
\* the recorded examples; len(new_dat) = len(new_lab) = number of visited
\* samples whose clean prediction equals their label, not counting the sample
\* being processed until it is saved; correct <= len(new_dat) <= number of
\* visited samples.
C17_CountersAtBoundaries ==
    /\ []((pc \in InTest) =>
            /\ Len(new_dat) = Len(new_lab)
            /\ Len(new_dat) = Cardinality(visited \cap CleanCorrect)
                               - (IF pc \in NotYetSaved THEN 1 ELSE 0)
            /\ correct <= Len(new_dat)
            /\ Len(new_dat) <= Cardinality(visited))
    /\ [][(pc = "fetch" /\ visited' # visited) =>
             /\ (pc' = "fetch") <=> (init_pred' # target')
             /\ (pc' = "collect") <=> (init_pred' = target')
             /\ UNCHANGED <<correct, new_dat, new_lab, adv_examples>>]_vars

\* between two samples, after one sample was skipped and another saved
C17_Witness ==
    /\ pc = "fetch"
    /\ epsilon > 0
    /\ visited \ CleanCorrect # {}
    /\ Len(new_dat) >= 1
    /\ visited # DOMAIN test_data

\* the test set holds only samples of label 0
AllLabelsZero == \A i \in DOMAIN test_data : test_data[i].label = 0

StillCorrectAt(e) ==
    {i \in CleanCorrect :
        Pred(Forward(weights,
                     fgsm_attack(test_data[i].image, e,
                                 InputGrad(weights, test_data[i].image))))
            = test_data[i].label}

\* C19: the correct count and the accuracy of test() are determined by the
\* model, the test set and epsilon alone: between samples correct is the
\* number of visited samples that stay correctly classified, and what is
\* returned, printed and appended to accuracies for an epsilon is that number
\* over the whole test set, whatever the visiting order and the drawn
\* coefficients were.
C19_OrderAndAlphaIndependent ==
    /\ (pc \in {"fetch", "returned"}) =>
            correct = Cardinality(visited \cap StillCorrectAt(epsilon))
    /\ (pc = "returned") =>
            /\ ret.final_acc = [num |-> Cardinality(StillCorrectAt(epsilon)),
                                den |-> Len(test_data)]
            /\ printed[Len(printed)][2] = Cardinality(StillCorrectAt(epsilon))
            /\ printed[Len(printed)][4] = ret.final_acc
    /\ (pc = "loop" /\ accuracies # <<>>) =>
            LET k == Len(accuracies)
            IN  accuracies[k] = [num |-> Cardinality(StillCorrectAt(epsilons[k])),
                                 den |-> Len(test_data)]

\* test() returned after visiting the second sample before the first, their
\* images differing, with a coefficient that moved the interpolated point
C19_Witness ==
    /\ pc = "returned"
    /\ epsilon > 0
    /\ Len(new_dat) >= 2
    /\ test_data[1].image # test_data[2].image
    /\ new_dat[1] = fgsm_attack(test_data[2].image, epsilon, weights)
    /\ new_dat[2] = fgsm_attack(test_data[1].image, epsilon, weights)
    /\ new_dat[1] # new_dat[2]
    /\ loss.gp_at # Interpolated(data, perturbed_data, 0)

====
